---- MODULE Spec2Model ----
(***************************************************************************)
(* create-shiny-react-app: the scaffolding CLI, in its three versions.     *)
(*   p1  src/unnamed/part_001  two backends, package-custom.json side-file *)
(*   p2  src/unnamed/part_002  three backends, package-config.json         *)
(*   p3  src/unnamed/part_003  three backends, scripts computed inline     *)
(* One run of main(): the argument and target checks, template discovery,  *)
(* the prompts, the recursive copy, the manifest patch, the documentation  *)
(* injection and the summary. The filesystem is one map from absolute      *)
(* paths to nodes; a prompt's answer is the input of the action that       *)
(* resumes main() after the await.                                         *)
(***************************************************************************)
EXTENDS Integers, Sequences, FiniteSets, TLC

VARIABLES
  cli,                  \* which version of the CLI runs
  argv,                 \* process.argv.slice(2)
  fs,                   \* the filesystem: absolute path -> node
  fs0,                  \* the filesystem when main() started
  pc,                   \* position of main()
  exitCode,             \* "running", "0" or "1"
  out,                  \* kinds of message printed so far
  asked,                \* the prompts asked so far, in order
  input,                \* the last line read from the terminal
  templatesDir,         \* the templates root main() settled on, <<>> before
  tmplRead,             \* the templates root has been listed
  availableTemplates,   \* result of getAvailableTemplates
  selectedTemplate,     \* id of the chosen template, "" before
  selectedBackend,      \* id of the chosen backend, "" before
  pythonPackageManager, \* "null", "uv", "pip" or "none"
  shouldIncludeClaude,  \* "unset", "yes" or "no"
  reasks,               \* invalid answers given to the re-asking prompts
  rlOpen,               \* the readline interface is open
  calc                  \* inputs and results of a function applied on its own

vars == <<cli, argv, fs, fs0, pc, exitCode, out, asked, input, templatesDir, tmplRead,
          availableTemplates, selectedTemplate, selectedBackend,
          pythonPackageManager, shouldIncludeClaude, reasks, rlOpen, calc>>

\* Most invalid answers one run gives to the prompts that ask again.
MaxReasks == 1

\* The longest path the operating system accepts, in components.
MaxPathLen == 9

-----------------------------------------------------------------------------
(* JSON values. A value is a record [t, s, o]: a string carries s, an      *)
(* object carries o, a function from its keys to values.                   *)

JUndef == [t |-> "undef", s |-> "", o |-> <<>>]
JNull == [t |-> "null", s |-> "", o |-> <<>>]
JStr(str) == [t |-> "str", s |-> str, o |-> <<>>]
JObj(f) == [t |-> "obj", s |-> "", o |-> f]

\* The project names of the model, and the characters of each. Every other
\* string of the model is a single character.
AppNames == {"ab", "$&"}

Chars(str) ==
  CASE str = "ab" -> <<"a", "b">>
    [] str = "$&" -> <<"$", "&">>
    [] str = "" -> <<>>
    [] OTHER -> <<str>>

\* JavaScript truthiness of a value.
Truthy(v) == v.t = "obj" \/ (v.t = "str" /\ v.s # "")

\* The own enumerable properties an object spread {...v} copies: those of an
\* object, the indexed characters of a string, none of null or undefined.
Spread(v) ==
  CASE v.t = "obj" -> v.o
    [] v.t = "str" ->
         [k \in {ToString(i - 1) : i \in 1..Len(Chars(v.s))} |->
            JStr(Chars(v.s)[(CHOOSE i \in 1..Len(Chars(v.s)) : ToString(i - 1) = k)])]
    [] OTHER -> <<>>

\* Object.keys(v)
ObjectKeys(v) == DOMAIN Spread(v)

\* v[k], undefined when v has no such property
Get(v, k) == IF k \in DOMAIN Spread(v) THEN Spread(v)[k] ELSE JUndef

\* obj[k] = x on an object
Put(obj, k, x) ==
  JObj([kk \in (DOMAIN obj.o) \cup {k} |-> IF kk = k THEN x ELSE obj.o[kk]])

\* A mistaken form of the spread: the value replaced is kept under a key of
\* the result.
SpreadMergeKeepingPrevious(a, b) ==
  JObj([k \in (DOMAIN Spread(b)) \cup {"previous"} |->
          IF k = "previous" THEN a ELSE Spread(b)[k]])

\* A mistaken form of the spread: on a shared key the first value is kept.
SpreadMergeFirstWins(a, b) ==
  JObj([k \in (DOMAIN Spread(a)) \cup (DOMAIN Spread(b)) |->
          IF k \in DOMAIN Spread(a) THEN Spread(a)[k] ELSE Spread(b)[k]])

\* { ...a, ...b }
SpreadMerge(a, b) ==
  JObj([k \in (DOMAIN Spread(a)) \cup (DOMAIN Spread(b)) |->
          IF k \in DOMAIN Spread(b) THEN Spread(b)[k] ELSE Spread(a)[k]])

-----------------------------------------------------------------------------
(* File contents. id names the bytes; ok says whether they parse as JSON,  *)
(* and then val is the value; txt is the text of a documentation file, as  *)
(* a sequence of tokens.                                                   *)

Blob(id) == [id |-> id, ok |-> FALSE, val |-> JUndef, txt |-> <<>>]
JsonText(id, v) == [id |-> id, ok |-> TRUE, val |-> v, txt |-> <<>>]
DocText(id, toks) == [id |-> id, ok |-> FALSE, val |-> JUndef, txt |-> toks]

\* JSON.stringify(v, null, 2): the 2-space rendering of v
JSONstringify(v) == JsonText("indent2", v)

DirNode == [k |-> "dir", d |-> Blob("")]
FileNode(d) == [k |-> "file", d |-> d]

\* The function with the given set of <<path, node>> pairs as its graph.
FsOf(S) == [p \in {e[1] : e \in S} |-> (CHOOSE e \in S : e[1] = p)[2]]

\* The pairs of S moved under the directory at path base.
Under(base, S) == {<<base \o e[1], e[2]>> : e \in S}

existsSync(f, p) == p \in DOMAIN f
isDirectory(f, p) == f[p].k = "dir"
IsPrefix(p, q) == Len(p) <= Len(q) /\ SubSeq(q, 1, Len(p)) = p

\* fs.readdirSync(p): the names of the entries of directory p
readdirSync(f, p) ==
  {q[Len(p) + 1] : q \in {r \in DOMAIN f : Len(r) = Len(p) + 1 /\ IsPrefix(p, r)}}

\* fs.mkdirSync(p, { recursive: true }): p and its missing ancestors
mkdirSync(f, p) ==
  LET missing == {SubSeq(p, 1, n) : n \in 1..Len(p)} \ DOMAIN f
  IN  [q \in missing |-> DirNode] @@ f

writeFileSync(f, p, d) == (p :> FileNode(d)) @@ f
copyFileSync(f, src, dest) == (dest :> f[src]) @@ f
\* A mistaken form of unlinkSync: every file of that name is removed.
unlinkSyncEverywhere(f, p) ==
  [q \in {r \in DOMAIN f : r[Len(r)] # p[Len(p)]} |-> f[q]]

unlinkSync(f, p) == [q \in (DOMAIN f) \ {p} |-> f[q]]

-----------------------------------------------------------------------------
(* Program constants.                                                      *)

\* The ids of BACKENDS, in order.
BACKENDS ==
  IF cli = "p1" THEN <<"r", "py">> ELSE <<"r", "py", "both">>

SKIP_PATHS == {"node_modules", "www", "__pycache__", ".DS_Store"}

\* path.dirname(__dirname)
cliPackageDir == <<"pkg">>

\* The package p3 resolves its templates from.
shinyReactPath == cliPackageDir \o <<"node_modules", "@posit/shiny-react">>

\* path.join(..., "templates")
packageTemplatesDir ==
  IF cli = "p3" THEN shinyReactPath \o <<"templates">>
  ELSE cliPackageDir \o <<"templates">>

\* path.join(__dirname, "..", "..", "templates"), p3's development fallback
devTemplatesDir == <<"templates">>

\* args[0] and path.resolve(appName), when there is exactly one argument
appName == argv[1]

\* A project name that is an absolute path into the package's template
\* 1-basic.
InsideName == "/templates/1-basic/in"

ResolvePath(name) ==
  IF name = InsideName THEN packageTemplatesDir \o <<"1-basic", "in">>
  ELSE <<"cwd", name>>
targetDir == ResolvePath(appName)

\* The name of the backend-config side-file.
SideFileName == IF cli = "p1" THEN "package-custom.json" ELSE "package-config.json"

-----------------------------------------------------------------------------
(* The inputs of a run: what the package's templates directory and the     *)
(* working directory hold when main() starts.                              *)

\* A plain template: frontend sources and one directory per backend.
PlainTree ==
  { <<<<"srcts">>, DirNode>>,
    <<<<"srcts", "main.tsx">>, FileNode(Blob("main.tsx"))>>,
    <<<<"r">>, DirNode>>,
    <<<<"r", "app.R">>, FileNode(Blob("app.R"))>>,
    <<<<"py">>, DirNode>>,
    <<<<"py", "app.py">>, FileNode(Blob("app.py"))>> }

\* The same with build artifacts at several depths, and with entries below
\* the top level that carry a backend's name.
RichTree ==
  PlainTree \cup
  { <<<<"node_modules">>, DirNode>>,
    <<<<"node_modules", "m.js">>, FileNode(Blob("m.js"))>>,
    <<<<".DS_Store">>, FileNode(Blob("ds"))>>,
    <<<<"r", "www">>, DirNode>>,
    <<<<"r", "www", "main.js">>, FileNode(Blob("main.js"))>>,
    <<<<"py", "__pycache__">>, DirNode>>,
    <<<<"py", "__pycache__", "c.pyc">>, FileNode(Blob("c.pyc"))>>,
    <<<<"py", "r">>, FileNode(Blob("py/r"))>>,
    <<<<"srcts", "py">>, FileNode(Blob("srcts/py"))>> }

TreeOf(tree) == IF tree = "rich" THEN RichTree ELSE PlainTree

\* A template's package.json as an object.
ManifestObj ==
  JObj([k \in {"name", "description", "scripts", "dependencies"} |->
    CASE k = "name" -> JStr("t")
      [] k = "description" -> JStr("d")
      [] k = "scripts" ->
           JObj([j \in {"build", "dev"} |-> IF j = "build" THEN JStr("x") ELSE JStr("y")])
      [] k = "dependencies" ->
           JObj([j \in {"@posit/shiny-react", "react"} |-> JStr("1")])])

\* The package.json of a template, by kind: absent, not JSON, the JSON text
\* null, or an object.
ManifestFile(man) ==
  CASE man = "none" -> {}
    [] man = "bad" -> {<<<<"package.json">>, FileNode(Blob("badjson"))>>}
    [] man = "null" -> {<<<<"package.json">>, FileNode(JsonText("src", JNull))>>}
    [] man = "obj" -> {<<<<"package.json">>, FileNode(JsonText("src", ManifestObj))>>}

\* Side-file contents: entries for r and py (none for both) that carry
\* scripts and dependencies, and entries that carry a name.
SideFull ==
  JObj([b \in {"r", "py"} |->
    IF b = "r"
    THEN JObj([k \in {"scripts", "dependencies"} |->
           IF k = "scripts" THEN JObj([j \in {"build"} |-> JStr("z")])
           ELSE JObj([j \in {"react", "e"} |-> JStr("2")])])
    ELSE JObj([k \in {"scripts"} |-> JObj([j \in {"build"} |-> JStr("w")])])])

SideName ==
  JObj([b \in {"r", "py", "both"} |-> JObj([k \in {"name"} |-> JStr("n")])])

SideFile(side) ==
  CASE side = "none" -> {}
    [] side = "bad" -> {<<<<SideFileName>>, FileNode(Blob("badside"))>>}
    [] side = "null" -> {<<<<SideFileName>>, FileNode(JsonText("src", JNull))>>}
    [] side = "full" -> {<<<<SideFileName>>, FileNode(JsonText("src", SideFull))>>}
    [] side = "name" -> {<<<<SideFileName>>, FileNode(JsonText("src", SideName))>>}

\* The placeholder each version replaces in CLAUDE.md.template.
Placeholder == IF cli = "p1" THEN "{project_name}" ELSE "hello-world-app"

\* The documentation sources kept in the templates root.
DocFiles ==
  { <<<<"CLAUDE.md.template">>,
      FileNode(DocText("claude", <<"#", "{project_name}", "hello-world-app", "{project_name}">>))>>,
    <<<<"SHINY-REACT.md">>, FileNode(Blob("shiny-react.md"))>> }

DocNames == {e[1][1] : e \in DocFiles}

\* The entries of the templates root, by configuration: docs names the
\* documentation sources that are there. A mixed root holds, next to a
\* template, a hidden directory, a directory of build output and a template
\* whose name starts with a word.
RootEntries(rootCfg, tree, man, side, docs) ==
  LET present == {e \in DocFiles : e[1][1] \in docs}
      first == Under(<<"1-basic">>,
                 {<<<<>>, DirNode>>} \cup TreeOf(tree) \cup ManifestFile(man) \cup SideFile(side))
      second == Under(<<"2-scaffold">>,
                 {<<<<>>, DirNode>>} \cup PlainTree \cup ManifestFile("obj"))
      others == Under(<<"x-demo">>,
                  {<<<<>>, DirNode>>} \cup PlainTree \cup ManifestFile("obj"))
                \cup { <<<<".git">>, DirNode>>,
                       <<<<".git", "HEAD">>, FileNode(Blob("HEAD"))>>,
                       <<<<"www">>, DirNode>>,
                       <<<<"www", "main.js">>, FileNode(Blob("main.js"))>> }
  IN  CASE rootCfg = "empty" -> present
        [] rootCfg = "one" -> present \cup first
        [] rootCfg = "two" -> present \cup first \cup second
        [] rootCfg = "mixed" -> present \cup first \cup others
        [] OTHER -> {}

\* The directory of each project name, with a file in it.
PreExisting ==
  UNION {Under(ResolvePath(n), {<<<<>>, DirNode>>, <<<<"old.txt">>, FileNode(Blob("old"))>>}) : n \in AppNames}

InitialFs(rootCfg, tree, man, side, docs, pre) ==
  LET pkg == IF rootCfg = "nopkg" THEN {}
             ELSE IF cli = "p3"
             THEN {<<SubSeq(shinyReactPath, 1, n), DirNode>> : n \in 2..Len(shinyReactPath)}
             ELSE {}
      root == IF rootCfg \in {"nopkg", "missing"} THEN {}
              ELSE Under(packageTemplatesDir, {<<<<>>, DirNode>>} \cup RootEntries(rootCfg, tree, man, side, docs))
  IN  FsOf({<<<<"cwd">>, DirNode>>, <<cliPackageDir, DirNode>>}
           \cup pkg \cup root \cup (IF pre THEN PreExisting ELSE {}))

\* calc while main() runs: no function is applied on its own.
NoCalc == [stage |-> "none"]

Argvs ==
  {<<>>} \cup {<<n>> : n \in AppNames \cup {InsideName}} \cup {<<n, "x">> : n \in AppNames}

Init ==
  /\ cli \in {"p1", "p2", "p3"}
  /\ argv \in Argvs
  /\ \E rootCfg \in {"nopkg", "missing", "empty", "one", "two", "mixed"},
        tree \in {"plain", "rich"},
        man \in {"none", "bad", "null", "obj"},
        side \in {"none", "bad", "null", "full", "name"},
        docs \in SUBSET DocNames,
        pre \in BOOLEAN :
       /\ rootCfg = "nopkg" => cli = "p3"
       /\ rootCfg \notin {"one", "two"} => tree = "plain" /\ man = "obj" /\ side = "none"
       /\ man # "obj" => side \in {"none", "full"}
       /\ rootCfg = "mixed" => docs = {}
       /\ (docs # DocNames /\ rootCfg # "mixed") =>
            rootCfg = "one" /\ tree = "plain" /\ man = "obj" /\ side = "none"
       /\ argv = <<InsideName>> =>
            /\ rootCfg = "two" /\ tree = "plain" /\ man = "obj"
            /\ side \in {"none", "full"} /\ docs = DocNames /\ ~pre
       /\ fs = InitialFs(rootCfg, tree, man, side, docs, pre)
  /\ fs0 = fs
  /\ pc = "start"
  /\ exitCode = "running"
  /\ out = {}
  /\ asked = <<>>
  /\ input = ""
  /\ templatesDir = <<>>
  /\ tmplRead = FALSE
  /\ availableTemplates = <<>>
  /\ selectedTemplate = ""
  /\ selectedBackend = ""
  /\ pythonPackageManager = "null"
  /\ shouldIncludeClaude = "unset"
  /\ reasks = 0
  /\ rlOpen = TRUE
  /\ calc = NoCalc

-----------------------------------------------------------------------------
(* Template discovery.                                                     *)

\* entry.startsWith("."), on the names of the model
StartsWithDot(entry) == entry \in {".git", ".DS_Store"}

\* The place of a name in the order of localeCompare.
Rank(id) ==
  CASE id = ".DS_Store" -> 0
    [] id = ".git" -> 1
    [] id = "1-basic" -> 2
    [] id = "2-scaffold" -> 3
    [] id = "CLAUDE.md.template" -> 4
    [] id = "SHINY-REACT.md" -> 5
    [] id = "www" -> 6
    [] id = "x-demo" -> 7
    [] OTHER -> 8

localeCompare(a, b) == Rank(a) - Rank(b)

\* entry.split("-")
SplitDash(entry) ==
  CASE entry = "1-basic" -> <<"1", "basic">>
    [] entry = "2-scaffold" -> <<"2", "scaffold">>
    [] entry = "x-demo" -> <<"x", "demo">>
    [] OTHER -> <<entry>>

\* part.charAt(0).toUpperCase() + part.slice(1)
Capitalize(part) ==
  CASE part = "basic" -> "Basic"
    [] part = "scaffold" -> "Scaffold"
    [] part = "demo" -> "Demo"
    [] part = "x" -> "X"
    [] part = "www" -> "Www"
    [] OTHER -> part

\* The descriptor of one entry of the templates root: the name is the
\* sequence of words that join(" ") writes with spaces between them.
Descriptor(f, dir, entry) ==
  LET packageJsonPath == dir \o <<entry, "package.json">>
      readable == /\ existsSync(f, packageJsonPath)
                  /\ ~isDirectory(f, packageJsonPath)
                  /\ f[packageJsonPath].d.ok
                  /\ f[packageJsonPath].d.val.t \notin {"null", "undef"}
      packageJson == f[packageJsonPath].d.val
      nameParts == SubSeq(SplitDash(entry), 2, Len(SplitDash(entry)))
  IN  [ id |-> entry,
        name |-> IF readable /\ Len(nameParts) > 0
                 THEN [i \in 1..Len(nameParts) |-> Capitalize(nameParts[i])]
                 ELSE <<entry>>,
        description |-> IF readable /\ Truthy(Get(packageJson, "description"))
                        THEN Get(packageJson, "description").s
                        ELSE "Shiny-React template" ]

\* A mistaken form of the test: a directory without a package.json that
\* parses is no template.
IsTemplateWithManifest(f, dir, entry) ==
  /\ isDirectory(f, dir \o <<entry>>)
  /\ entry \notin SKIP_PATHS
  /\ existsSync(f, dir \o <<entry, "package.json">>)
  /\ f[dir \o <<entry, "package.json">>].d.ok

\* The test an entry passes to be a template.
IsTemplate(f, dir, entry) ==
  /\ isDirectory(f, dir \o <<entry>>)
  /\ IF cli = "p3" THEN ~StartsWithDot(entry) ELSE entry \notin SKIP_PATHS

\* One step of templates.sort(...): t placed after the elements that do not
\* compare greater (the sort is stable).
RECURSIVE SortInsert(_, _)
SortInsert(sorted, t) ==
  IF sorted = <<>> THEN <<t>>
  ELSE IF localeCompare(Head(sorted).id, t.id) <= 0
       THEN <<Head(sorted)>> \o SortInsert(Tail(sorted), t)
       ELSE <<t>> \o sorted

\* A mistaken form of the sort: the descriptors stay in the order of the
\* directory listing.
ListingOrder(ts) == ts

RECURSIVE SortById(_)
SortById(ts) ==
  IF ts = <<>> THEN <<>>
  ELSE SortInsert(SortById(SubSeq(ts, 1, Len(ts) - 1)), ts[Len(ts)])

\* The orders in which readdirSync may list a set of names.
Orders(S) ==
  {o \in [1..Cardinality(S) -> S] : \A i, j \in 1..Cardinality(S) : o[i] = o[j] => i = j}

\* getAvailableTemplates(dir), the directory listed in the order entries.
getAvailableTemplates(f, dir, entries) ==
  SortById(SelectSeq([i \in 1..Len(entries) |-> Descriptor(f, dir, entries[i])],
                     LAMBDA t : IsTemplate(f, dir, t.id)))

-----------------------------------------------------------------------------
(* The copy.                                                               *)

\* The names copyRecursive never copies.
skipList == IF cli = "p3" THEN {"node_modules", "www"} ELSE SKIP_PATHS

\* skipBackends, from the backend selected
skipBackendsOf(backend) ==
  CASE backend = "r" -> {"py"}
    [] backend = "py" -> {"r"}
    [] OTHER -> {}

\* Whether name is skipped inside a directory being copied.
Skipped(name, skipBackends) == name \in skipList \/ name \in skipBackends

\* Whether the operating system refuses to create an entry at path p: the
\* path is too long, or its parent is not a directory.
CannotCreate(f, p) ==
  \/ Len(p) > MaxPathLen
  \/ LET parent == SubSeq(p, 1, Len(p) - 1)
     IN  existsSync(f, parent) /\ ~isDirectory(f, parent)

\* copyRecursive(src, dest, { skipBackends }) on filesystem f. The result is
\* the filesystem and how the call ended: "ok", "exit" (src is missing:
\* process.exit(1)) or "threw" (an fs call failed). A directory is created
\* at dest unless something is there; a file is copied over a file.
RECURSIVE copyRecursive(_, _, _, _)
RECURSIVE copyEntries(_, _, _, _, _)

\* A mistaken form of copyRecursive: a source entry that is missing is passed
\* over.
copyRecursiveLenient(f, src, dest, skipBackends) ==
  IF ~existsSync(f, src) THEN [fs |-> f, end |-> "ok"]
  ELSE IF isDirectory(f, src)
  THEN IF ~existsSync(f, dest) /\ CannotCreate(f, dest)
       THEN [fs |-> f, end |-> "threw"]
       ELSE LET f1 == IF existsSync(f, dest) THEN f ELSE mkdirSync(f, dest)
            IN  copyEntries([fs |-> f1, end |-> "ok"], readdirSync(f1, src),
                            src, dest, skipBackends)
  ELSE IF (existsSync(f, dest) /\ isDirectory(f, dest)) \/ CannotCreate(f, dest)
       THEN [fs |-> f, end |-> "threw"]
       ELSE [fs |-> copyFileSync(f, src, dest), end |-> "ok"]

copyRecursive(f, src, dest, skipBackends) ==
  IF ~existsSync(f, src) THEN [fs |-> f, end |-> "exit"]
  ELSE IF isDirectory(f, src)
  THEN IF ~existsSync(f, dest) /\ CannotCreate(f, dest)
       THEN [fs |-> f, end |-> "threw"]
       ELSE LET f1 == IF existsSync(f, dest) THEN f ELSE mkdirSync(f, dest)
            IN  copyEntries([fs |-> f1, end |-> "ok"], readdirSync(f1, src),
                            src, dest, skipBackends)
  ELSE IF (existsSync(f, dest) /\ isDirectory(f, dest)) \/ CannotCreate(f, dest)
       THEN [fs |-> f, end |-> "threw"]
       ELSE [fs |-> copyFileSync(f, src, dest), end |-> "ok"]

\* files.forEach(...): the entries one after another, until one ends the run.
copyEntries(st, files, src, dest, skipBackends) ==
  IF files = {} \/ st.end # "ok" THEN st
  ELSE LET file == CHOOSE x \in files : TRUE
           st1 == IF Skipped(file, skipBackends) THEN st
                  ELSE copyRecursive(st.fs, src \o <<file>>, dest \o <<file>>, skipBackends)
       IN  copyEntries(st1, files \ {file}, src, dest, skipBackends)

-----------------------------------------------------------------------------
(* The manifest patch.                                                     *)

\* The module of p1 is an ES module, hence strict; p2 and p3 are scripts.
StrictMode == cli = "p1"

\* Whether v.k = x throws: on null and undefined always, on another
\* primitive in strict mode.
AssignThrows(v) == v.t \in {"null", "undef"} \/ (StrictMode /\ v.t # "obj")

\* v after v.k = x: a primitive is left as it is.
Assign(v, k, x) == IF v.t = "obj" THEN Put(v, k, x) ELSE v

\* p1: every key of the backend's entry is merged into the manifest.
MergeConfig1(packageJson, backendConfig) ==
  IF packageJson.t # "obj" THEN packageJson
  ELSE JObj([k \in (DOMAIN packageJson.o) \cup ObjectKeys(backendConfig) |->
              IF k \in ObjectKeys(backendConfig)
              THEN SpreadMerge(Get(packageJson, k), Get(backendConfig, k))
              ELSE packageJson.o[k]])

\* A mistaken form of the p2 merge: scripts is merged like every other key.
MergeConfig2MergingScripts(packageJson, backendConfig) ==
  MergeConfig1(packageJson, backendConfig)

\* p2: scripts is replaced when the entry has one; the other keys are merged.
MergeConfig2(packageJson, backendConfig) ==
  LET withScripts == IF Truthy(Get(backendConfig, "scripts"))
                     THEN Assign(packageJson, "scripts", Get(backendConfig, "scripts"))
                     ELSE packageJson
      keys == ObjectKeys(backendConfig) \ {"scripts"}
  IN  IF withScripts.t # "obj" THEN withScripts
      ELSE JObj([k \in (DOMAIN withScripts.o) \cup keys |->
                  IF k \in keys
                  THEN SpreadMerge(Get(withScripts, k), Get(backendConfig, k))
                  ELSE withScripts.o[k]])

MergeConfig(packageJson, backendConfig) ==
  IF cli = "p1" THEN MergeConfig1(packageJson, backendConfig)
  ELSE MergeConfig2(packageJson, backendConfig)

\* The lookup of the backend's entry in the parsed side-file and the merge
\* of the entry, when there is one.
MergeStep(packageJson, packageConfig, backend) ==
  LET backendConfig == Get(packageConfig, backend)
  IN  IF Truthy(backendConfig) THEN MergeConfig(packageJson, backendConfig)
      ELSE packageJson

\* A mistaken form of the try block: a side-file that does not parse is
\* taken for an empty one, removed without a warning.
ApplySideFileLenient(f, packageJson, sidePath, backend) ==
  IF ~existsSync(f, sidePath)
  THEN [fs |-> f, packageJson |-> packageJson, warned |-> FALSE]
  ELSE [fs |-> unlinkSync(f, sidePath), packageJson |-> packageJson, warned |-> FALSE]

\* The try block of updatePackageJson in p1 and p2: the manifest, the
\* filesystem and whether the warning of the catch block is printed.
ApplySideFile(f, packageJson, sidePath, backend) ==
  IF ~existsSync(f, sidePath)
  THEN [fs |-> f, packageJson |-> packageJson, warned |-> FALSE]
  ELSE IF isDirectory(f, sidePath) \/ ~f[sidePath].d.ok \/ f[sidePath].d.val.t \in {"null", "undef"}
  THEN [fs |-> f, packageJson |-> packageJson, warned |-> TRUE]
  ELSE [ fs |-> unlinkSync(f, sidePath),
         packageJson |-> MergeStep(packageJson, f[sidePath].d.val, backend),
         warned |-> FALSE ]

\* A mistaken form of the scripts of p3: the set of the R backend whatever
\* the backend.
InlineScriptsForR(backend) ==
  JObj([k \in {"build", "watch", "clean"} |->
    CASE k = "build" -> JStr("esbuild --outfile=r/www/main.js && tsc")
      [] k = "watch" -> JStr("esbuild --outfile=r/www/main.js --watch")
      [] k = "clean" -> JStr("rm -rf r/www")])

\* The scripts p3 writes for a backend (each command shortened to the
\* output file it names).
InlineScripts(backend) ==
  CASE backend = "r" ->
         JObj([k \in {"build", "watch", "clean"} |->
           CASE k = "build" -> JStr("esbuild --outfile=r/www/main.js && tsc")
             [] k = "watch" -> JStr("esbuild --outfile=r/www/main.js --watch")
             [] k = "clean" -> JStr("rm -rf r/www")])
    [] backend = "py" ->
         JObj([k \in {"build", "watch", "clean"} |->
           CASE k = "build" -> JStr("esbuild --outfile=py/www/main.js && tsc")
             [] k = "watch" -> JStr("esbuild --outfile=py/www/main.js --watch")
             [] k = "clean" -> JStr("rm -rf py/www")])
    [] backend = "both" ->
         JObj([k \in {"build", "watch", "build-r", "watch-r", "build-py", "watch-py", "clean"} |->
           CASE k = "build" -> JStr("npm run build-r, npm run build-py, tsc")
             [] k = "watch" -> JStr("npm run watch-r, npm run watch-py, tsc --watch")
             [] k = "build-r" -> JStr("esbuild --outfile=r/www/main.js")
             [] k = "watch-r" -> JStr("esbuild --outfile=r/www/main.js --watch")
             [] k = "build-py" -> JStr("esbuild --outfile=py/www/main.js")
             [] k = "watch-py" -> JStr("esbuild --outfile=py/www/main.js --watch")
             [] k = "clean" -> JStr("rm -rf r/www py/www")])
    [] OTHER -> JObj(<<>>)

\* p3: name, version, the shiny-react dependency and the scripts.
PatchInline(packageJson, name, backend) ==
  LET named == Assign(Assign(packageJson, "name", JStr(name)), "version", JStr("1.0.0"))
      deps == Get(named, "dependencies")
      pinned == IF Truthy(deps) /\ Truthy(Get(deps, "@posit/shiny-react"))
                THEN Assign(named, "dependencies",
                            Assign(deps, "@posit/shiny-react", JStr("^0.0.6")))
                ELSE named
  IN  Assign(pinned, "scripts", InlineScripts(backend))

\* updatePackageJson(dir, name, backend) on filesystem f: the filesystem
\* after it, whether it threw, and whether it printed the warning.
updatePackageJson(f, dir, name, backend) ==
  LET packageJsonPath == dir \o <<"package.json">>
      sidePath == dir \o <<SideFileName>>
  IN  IF ~existsSync(f, packageJsonPath)
      THEN [fs |-> f, threw |-> FALSE, warned |-> FALSE]
      ELSE IF \/ isDirectory(f, packageJsonPath)
              \/ ~f[packageJsonPath].d.ok
              \/ AssignThrows(f[packageJsonPath].d.val)
      THEN [fs |-> f, threw |-> TRUE, warned |-> FALSE]
      ELSE IF cli = "p3"
      THEN [ fs |-> writeFileSync(f, packageJsonPath,
                      JSONstringify(PatchInline(f[packageJsonPath].d.val, name, backend))),
             threw |-> FALSE, warned |-> FALSE ]
      ELSE LET named == Assign(f[packageJsonPath].d.val, "name", JStr(name))
               applied == ApplySideFile(f, named, sidePath, backend)
           IN  [ fs |-> writeFileSync(applied.fs, packageJsonPath,
                          JSONstringify(applied.packageJson)),
                 threw |-> FALSE, warned |-> applied.warned ]

-----------------------------------------------------------------------------
(* The documentation injection.                                            *)

\* What one match of the pattern is replaced by when the replacement string
\* is str: "$&" stands for the matched text and "$$" for "$".
RECURSIVE Expand(_, _)
Expand(cs, matched) ==
  IF cs = <<>> THEN <<>>
  ELSE IF Len(cs) >= 2 /\ cs[1] = "$" /\ cs[2] = "&"
       THEN <<matched>> \o Expand(SubSeq(cs, 3, Len(cs)), matched)
  ELSE IF Len(cs) >= 2 /\ cs[1] = "$" /\ cs[2] = "$"
       THEN <<"$">> \o Expand(SubSeq(cs, 3, Len(cs)), matched)
  ELSE <<cs[1]>> \o Expand(Tail(cs), matched)

\* text.replace(/pattern/g, str) on a text given as tokens
RECURSIVE ReplaceAll(_, _, _)
ReplaceAll(txt, pattern, str) ==
  IF txt = <<>> THEN <<>>
  ELSE (IF Head(txt) = pattern THEN Expand(Chars(str), pattern) ELSE <<Head(txt)>>)
       \o ReplaceAll(Tail(txt), pattern, str)

\* A mistaken form of the block: nothing is written unless both sources
\* exist.
injectDocsAllOrNothing(f, root, dir, name) ==
  LET claudeTemplatePath == root \o <<"CLAUDE.md.template">>
      shinyReactDocsPath == root \o <<"SHINY-REACT.md">>
      both == existsSync(f, claudeTemplatePath) /\ existsSync(f, shinyReactDocsPath)
  IN  [ fs |-> IF both
               THEN copyFileSync(writeFileSync(f, dir \o <<"CLAUDE.md">>,
                                   DocText("claude", ReplaceAll(f[claudeTemplatePath].d.txt, Placeholder, name))),
                                 shinyReactDocsPath, dir \o <<"SHINY-REACT.md">>)
               ELSE f,
        warnings |-> IF both THEN {} ELSE {"warnClaude", "warnShinyReact"} ]

\* The block under if (shouldIncludeClaude): the filesystem after it and the
\* warnings it prints.
injectDocs(f, root, dir, name) ==
  LET claudeTemplatePath == root \o <<"CLAUDE.md.template">>
      shinyReactDocsPath == root \o <<"SHINY-REACT.md">>
      haveClaude == existsSync(f, claudeTemplatePath)
      haveDocs == existsSync(f, shinyReactDocsPath)
      f1 == IF haveClaude
            THEN writeFileSync(f, dir \o <<"CLAUDE.md">>,
                   DocText("claude", ReplaceAll(f[claudeTemplatePath].d.txt, Placeholder, name)))
            ELSE f
      f2 == IF cli = "p1" /\ haveDocs
            THEN copyFileSync(f1, shinyReactDocsPath, dir \o <<"SHINY-REACT.md">>)
            ELSE f1
  IN  [ fs |-> f2,
        warnings |-> (IF haveClaude THEN {} ELSE {"warnClaude"})
                     \cup (IF cli = "p1" /\ ~haveDocs THEN {"warnShinyReact"} ELSE {}) ]

-----------------------------------------------------------------------------
(* The prompts.                                                            *)

\* The lines a user types at a numbered prompt, and at a yes/no prompt.
NumAnswers == {"", "0", "1", "2", "3", "4", "1x", "x"}
YesNoAnswers == {"", "y", "Y", "yes", "YES", "n", "No", "x"}

\* A number is [nan, n]; NaN compares false with everything.
Num(n) == [nan |-> FALSE, n |-> n]
NaN == [nan |-> TRUE, n |-> 0]

\* parseInt(line): the leading digits, NaN when there are none
parseInt(line) ==
  CASE line = "0" -> Num(0)
    [] line = "1" -> Num(1)
    [] line = "2" -> Num(2)
    [] line = "3" -> Num(3)
    [] line = "4" -> Num(4)
    [] line = "1x" -> Num(1)
    [] OTHER -> NaN

Minus1(x) == IF x.nan THEN NaN ELSE Num(x.n - 1)
Less(x, n) == ~x.nan /\ x.n < n
AtLeast(x, n) == ~x.nan /\ x.n >= n

\* line || dflt
OrDefault(line, dflt) == IF line = "" THEN dflt ELSE line

\* line.toLowerCase()
toLowerCase(line) ==
  CASE line = "Y" -> "y"
    [] line = "YES" -> "yes"
    [] line = "No" -> "no"
    [] OTHER -> line

\* The default each version substitutes for an empty line, and the default
\* its prompt shows in brackets.
TemplateDefault == IF cli = "p1" THEN "2" ELSE "1"
TemplateShown == IF cli = "p1" THEN "2" ELSE "1"
BackendDefault == "3"
BackendShown == IF cli = "p1" THEN "1" ELSE "3"

\* The documentation choice an empty line stands for in the prompt's text:
\* "[1]" (Yes) in p1, "(Y/n)" in p2, "(y/N)" in p3.
DocsShown == IF cli = "p3" THEN "no" ELSE "yes"

-----------------------------------------------------------------------------
(* main()                                                                  *)

\* A mistaken form of process.exit: the finally block of main() runs first
\* and closes the readline interface.
HaltClosing(code, msgs, line) ==
  /\ pc' = "done"
  /\ exitCode' = code
  /\ out' = out \cup msgs
  /\ input' = line
  /\ rlOpen' = FALSE
  /\ UNCHANGED <<calc, cli, argv, fs0, fs, asked, templatesDir, tmplRead, availableTemplates,
                 selectedTemplate, selectedBackend, pythonPackageManager,
                 shouldIncludeClaude, reasks>>

\* process.exit(code) after printing msgs; line is the last line read.
Halt(code, msgs, line) ==
  /\ pc' = "done"
  /\ exitCode' = code
  /\ out' = out \cup msgs
  /\ input' = line
  /\ UNCHANGED <<calc, cli, argv, fs0, fs, asked, templatesDir, tmplRead, availableTemplates,
                 selectedTemplate, selectedBackend, pythonPackageManager,
                 shouldIncludeClaude, reasks, rlOpen>>

\* Where p3 finds its templates: "" when the package or both directories
\* are missing.
LocateTemplates ==
  IF cli # "p3"
  THEN IF existsSync(fs, packageTemplatesDir) THEN packageTemplatesDir ELSE <<>>
  ELSE IF ~existsSync(fs, shinyReactPath) THEN <<>>
  ELSE IF existsSync(fs, packageTemplatesDir) THEN packageTemplatesDir
  ELSE IF existsSync(fs, devTemplatesDir) THEN devTemplatesDir
  ELSE <<>>

\* A mistaken form of the argument test: only a missing argument is refused.
OnlyMissingArgument == Len(argv) = 0

\* args.length !== 1
WrongArgCount == Len(argv) # 1

\* A mistaken form of the check: the target is never found.
TargetNeverTaken == FALSE

\* fs.existsSync(targetDir), the check that the target is free.
TargetTaken == existsSync(fs, targetDir)

\* From the start of main() to the first prompt.
Start ==
  /\ pc = "start"
  /\ IF WrongArgCount THEN Halt("1", {"usage"}, input)
     ELSE IF TargetTaken THEN Halt("1", {"exists"}, input)
     ELSE IF LocateTemplates = <<>> THEN Halt("1", {"noTemplatesDir"}, input)
     ELSE \E entries \in Orders(readdirSync(fs, LocateTemplates)) :
            /\ templatesDir' = LocateTemplates
            /\ tmplRead' = TRUE
            /\ availableTemplates' = getAvailableTemplates(fs, LocateTemplates, entries)
            /\ out' = out \cup {"creating", "templates"}
            /\ asked' = Append(asked, "template")
            /\ pc' = "askTemplate"
            /\ UNCHANGED <<calc, cli, argv, fs0, fs, exitCode, input, selectedTemplate,
                           selectedBackend, pythonPackageManager,
                           shouldIncludeClaude, reasks, rlOpen>>

\* The answer to "Choose a template".
AnswerTemplate ==
  /\ pc = "askTemplate"
  /\ \E line \in NumAnswers :
       LET choiceIndex == Minus1(parseInt(OrDefault(line, TemplateDefault)))
       IN  IF Less(choiceIndex, 0) \/ AtLeast(choiceIndex, Len(availableTemplates))
           THEN Halt("1", {"invalidChoice"}, line)
           ELSE IF choiceIndex.nan
           THEN \* availableTemplates[NaN] is undefined: reading its id throws
                Halt("1", {"errorCreating"}, line)
           ELSE /\ selectedTemplate' = availableTemplates[choiceIndex.n + 1].id
                /\ input' = line
                /\ out' = out \cup {"backends"}
                /\ asked' = Append(asked, "backend")
                /\ pc' = "askBackend"
                /\ UNCHANGED <<calc, cli, argv, fs0, fs, exitCode, templatesDir, tmplRead,
                               availableTemplates, selectedBackend,
                               pythonPackageManager, shouldIncludeClaude, reasks, rlOpen>>

\* A mistaken form of the test: the package manager is asked for whatever the
\* backend.
AsksPackageManagerAlways(backend) == cli = "p1"

\* if (selectedBackend.id === "py"), in p1; p2 and p3 have no such prompt.
AsksPackageManager(backend) == cli = "p1" /\ backend = "py"

\* The answer to "Choose a backend".
AnswerBackend ==
  /\ pc = "askBackend"
  /\ \E line \in NumAnswers :
       LET backendIndex == Minus1(parseInt(OrDefault(line, BackendDefault)))
       IN  IF Less(backendIndex, 0) \/ AtLeast(backendIndex, Len(BACKENDS))
           THEN Halt("1", {"invalidChoice"}, line)
           ELSE IF backendIndex.nan
           THEN Halt("1", {"errorCreating"}, line)
           ELSE LET backend == BACKENDS[backendIndex.n + 1]
                    askPm == AsksPackageManager(backend)
                IN  /\ selectedBackend' = backend
                    /\ input' = line
                    /\ asked' = Append(asked, IF askPm THEN "packageManager" ELSE "docs")
                    /\ pc' = IF askPm THEN "askPm" ELSE "askDocs"
                    /\ UNCHANGED <<calc, cli, argv, fs0, fs, exitCode, out, templatesDir, tmplRead,
                                   availableTemplates, selectedTemplate,
                                   pythonPackageManager, shouldIncludeClaude, reasks, rlOpen>>

\* A mistaken form of the loop: an invalid answer ends the run, as at the
\* first two prompts.
ReaskFatal(line) == Halt("1", {"pleaseSelect"}, line)

\* An invalid answer to a prompt that asks again.
Reask(line) ==
  /\ reasks < MaxReasks
  /\ reasks' = reasks + 1
  /\ input' = line
  /\ out' = out \cup {"pleaseSelect"}
  /\ UNCHANGED <<calc, cli, argv, fs0, fs, pc, exitCode, asked, templatesDir, tmplRead,
                 availableTemplates, selectedTemplate, selectedBackend,
                 pythonPackageManager, shouldIncludeClaude, rlOpen>>

\* The answer to "Choose package manager" (p1, Python backend).
AnswerPackageManager ==
  /\ pc = "askPm"
  /\ \E line \in NumAnswers :
       LET pmIndex == Minus1(parseInt(OrDefault(line, "1")))
       IN  IF AtLeast(pmIndex, 0) /\ ~AtLeast(pmIndex, 3)
           THEN /\ pythonPackageManager' = <<"uv", "pip", "none">>[pmIndex.n + 1]
                /\ input' = line
                /\ asked' = Append(asked, "docs")
                /\ pc' = "askDocs"
                /\ UNCHANGED <<calc, cli, argv, fs0, fs, exitCode, out, templatesDir, tmplRead,
                               availableTemplates, selectedTemplate, selectedBackend,
                               shouldIncludeClaude, reasks, rlOpen>>
           ELSE Reask(line)

\* The documentation prompt answered: main() goes on to the copy.
Answered(line, include) ==
  /\ shouldIncludeClaude' = IF include THEN "yes" ELSE "no"
  /\ input' = line
  /\ out' = out \cup {"summary"}
  /\ pc' = "copy"
  /\ UNCHANGED <<calc, cli, argv, fs0, fs, exitCode, asked, templatesDir, tmplRead,
                 availableTemplates, selectedTemplate, selectedBackend,
                 pythonPackageManager, reasks, rlOpen>>

\* The answer to the documentation prompt: numbered in p1, yes/no in p2
\* (asked again until valid) and in p3 (asked once).
AnswerDocs ==
  /\ pc = "askDocs"
  /\ CASE cli = "p1" ->
            \E line \in NumAnswers :
              LET choiceIndex == Minus1(parseInt(OrDefault(line, "1")))
              IN  IF ~choiceIndex.nan /\ choiceIndex.n = 0 THEN Answered(line, TRUE)
                  ELSE IF ~choiceIndex.nan /\ choiceIndex.n = 1 THEN Answered(line, FALSE)
                  ELSE Reask(line)
       [] cli = "p2" ->
            \E line \in YesNoAnswers :
              LET lowerResponse == toLowerCase(line)
              IN  IF lowerResponse \in {"n", "no"} THEN Answered(line, FALSE)
                  ELSE IF lowerResponse \in {"y", "yes", ""} THEN Answered(line, TRUE)
                  ELSE Reask(line)
       [] OTHER ->
            \E line \in YesNoAnswers :
              Answered(line, toLowerCase(line) \in {"y", "yes"})

\* path.join(templatesDir, selectedTemplate.id)
templateDir == templatesDir \o <<selectedTemplate>>

\* copyRecursive(templateDir, targetDir, { skipBackends })
Copy ==
  /\ pc = "copy"
  /\ LET res == copyRecursive(fs, templatesDir \o <<selectedTemplate>>, targetDir,
                              skipBackendsOf(selectedBackend))
     IN  /\ fs' = res.fs
         /\ pc' = IF res.end = "ok" THEN "patch" ELSE "done"
         /\ exitCode' = IF res.end = "ok" THEN exitCode ELSE "1"
         /\ out' = out \cup (CASE res.end = "ok" -> {}
                               [] res.end = "exit" -> {"templateNotFound"}
                               [] OTHER -> {"errorCreating"})
  /\ UNCHANGED <<calc, cli, argv, fs0, asked, input, templatesDir, tmplRead, availableTemplates,
                 selectedTemplate, selectedBackend, pythonPackageManager,
                 shouldIncludeClaude, reasks, rlOpen>>

\* updatePackageJson(targetDir, appName, selectedBackend.id); an exception
\* reaches the catch block of main(), which exits with 1.
Patch ==
  /\ pc = "patch"
  /\ LET res == updatePackageJson(fs, targetDir, appName, selectedBackend)
     IN  /\ fs' = res.fs
         /\ pc' = IF res.threw THEN "done" ELSE "docs"
         /\ exitCode' = IF res.threw THEN "1" ELSE exitCode
         /\ out' = out \cup (IF res.threw THEN {"errorCreating"} ELSE {})
                       \cup (IF res.warned THEN {"warnConfig"} ELSE {})
  /\ UNCHANGED <<calc, cli, argv, fs0, asked, input, templatesDir, tmplRead, availableTemplates,
                 selectedTemplate, selectedBackend, pythonPackageManager,
                 shouldIncludeClaude, reasks, rlOpen>>

\* The documentation files, when the user asked for them.
Docs ==
  /\ pc = "docs"
  /\ LET res == injectDocs(fs, templatesDir, targetDir, appName)
     IN  IF shouldIncludeClaude = "yes"
         THEN fs' = res.fs /\ out' = out \cup res.warnings
         ELSE UNCHANGED <<fs, out>>
  /\ pc' = "finish"
  /\ UNCHANGED <<calc, cli, argv, fs0, exitCode, asked, input, templatesDir, tmplRead,
                 availableTemplates, selectedTemplate, selectedBackend,
                 pythonPackageManager, shouldIncludeClaude, reasks, rlOpen>>

\* The success message and the next steps; the finally block closes the
\* readline interface and the process ends with code 0.
Finish ==
  /\ pc = "finish"
  /\ out' = out \cup {"success"}
  /\ rlOpen' = FALSE
  /\ exitCode' = "0"
  /\ pc' = "done"
  /\ UNCHANGED <<calc, cli, argv, fs0, fs, asked, input, templatesDir, tmplRead,
                 availableTemplates, selectedTemplate, selectedBackend,
                 pythonPackageManager, shouldIncludeClaude, reasks>>

Next ==
  \/ Start
  \/ AnswerTemplate
  \/ AnswerBackend
  \/ AnswerPackageManager
  \/ AnswerDocs
  \/ Copy
  \/ Patch
  \/ Docs
  \/ Finish

Spec == Init /\ [][Next]_vars

-----------------------------------------------------------------------------
(* main() next to another process that creates the target path while       *)
(* main() waits for a line at a prompt.                                    *)

\* What the other process puts at the target path: a directory holding a
\* file of its own, a file at a path the template has too, and a directory
\* where the template has a file.
ForeignTree ==
  { <<<<>>, DirNode>>,
    <<<<"old.txt">>, FileNode(Blob("old"))>>,
    <<<<"srcts">>, DirNode>>,
    <<<<"srcts", "main.tsx">>, FileNode(Blob("foreign"))>>,
    <<<<"py">>, DirNode>>,
    <<<<"py", "app.py">>, DirNode>> }

\* main() is suspended in await question(...).
AtPrompt == pc \in {"askTemplate", "askBackend", "askPm", "askDocs"}

\* The other process creates the target while main() is at a prompt.
OtherProcessCreatesTarget ==
  /\ AtPrompt
  /\ ~existsSync(fs, targetDir)
  /\ fs' = FsOf(Under(targetDir, ForeignTree)) @@ fs
  /\ UNCHANGED <<calc, cli, argv, fs0, pc, exitCode, out, asked, input, templatesDir,
                 tmplRead, availableTemplates, selectedTemplate, selectedBackend,
                 pythonPackageManager, shouldIncludeClaude, reasks, rlOpen>>

\* The entries of a template directory that the other process removes.
Removable == {"package.json", "r"}

\* The filesystem without the entry at path p and what is below it.
RemoveTree(f, p) == [q \in {r \in DOMAIN f : ~IsPrefix(p, r)} |-> f[q]]

\* The copy, the other process removing an entry of the template directory
\* after copyRecursive has listed the directory and before it visits the
\* entry.
CopyWhileOtherProcessDeletes ==
  /\ pc = "copy"
  /\ existsSync(fs, templateDir)
  /\ existsSync(fs, targetDir) => isDirectory(fs, targetDir)
  /\ \E victim \in readdirSync(fs, templateDir) \cap Removable :
       LET f1 == IF existsSync(fs, targetDir) THEN fs ELSE mkdirSync(fs, targetDir)
           res == copyEntries([fs |-> RemoveTree(f1, templateDir \o <<victim>>), end |-> "ok"],
                              readdirSync(fs, templateDir), templateDir, targetDir,
                              skipBackendsOf(selectedBackend))
       IN  /\ fs' = res.fs
           /\ pc' = IF res.end = "ok" THEN "patch" ELSE "done"
           /\ exitCode' = IF res.end = "ok" THEN exitCode ELSE "1"
           /\ out' = out \cup (CASE res.end = "ok" -> {}
                                 [] res.end = "exit" -> {"templateNotFound"}
                                 [] OTHER -> {"errorCreating"})
  /\ UNCHANGED <<calc, cli, argv, fs0, asked, input, templatesDir, tmplRead,
                 availableTemplates, selectedTemplate, selectedBackend,
                 pythonPackageManager, shouldIncludeClaude, reasks, rlOpen>>

NextWithOtherProcess ==
  \/ Next
  \/ OtherProcessCreatesTarget
  \/ CopyWhileOtherProcessDeletes

SpecWithOtherProcess == Init /\ [][NextWithOtherProcess]_vars

-----------------------------------------------------------------------------
(* The merge step of updatePackageJson applied on its own: to a manifest,  *)
(* and then once more to its result, with the same side-file and backend.  *)

\* The variables of main(), at rest while a function is applied on its own.
mainVars == <<argv, fs, fs0, pc, exitCode, out, asked, input, templatesDir, tmplRead,
              availableTemplates, selectedTemplate, selectedBackend,
              pythonPackageManager, shouldIncludeClaude, reasks, rlOpen>>

AtRest ==
  /\ argv = <<>>
  /\ fs = <<>>
  /\ fs0 = <<>>
  /\ pc = "done"
  /\ exitCode = "running"
  /\ out = {}
  /\ asked = <<>>
  /\ input = ""
  /\ templatesDir = <<>>
  /\ tmplRead = FALSE
  /\ availableTemplates = <<>>
  /\ selectedTemplate = ""
  /\ selectedBackend = ""
  /\ pythonPackageManager = "null"
  /\ shouldIncludeClaude = "unset"
  /\ reasks = 0
  /\ rlOpen = TRUE

\* The values a field of a manifest or of a side-file entry takes: strings,
\* null, and objects with zero, one or two keys.
FieldValues ==
  { JStr("s"), JStr(""), JNull, JObj(<<>>),
    JObj([j \in {"build"} |-> JStr("x")]),
    JObj([j \in {"build", "dev"} |-> IF j = "build" THEN JStr("z") ELSE JStr("y")]) }

\* The objects with some of the keys scripts and dependencies.
SmallObjects ==
  UNION {{JObj(o) : o \in [K -> FieldValues]} : K \in SUBSET {"scripts", "dependencies"}}

\* What a side-file holds under a backend's id: an object, or a string.
Entries == SmallObjects \cup {JStr("s")}

MergeInit ==
  /\ cli \in {"p1", "p2"}
  /\ AtRest
  /\ \E m \in SmallObjects, e \in Entries, b \in {"r", "py"} :
       calc = [stage |-> "input", packageJson |-> m,
               packageConfig |-> JObj([k \in {"r"} |-> e]), backend |-> b,
               once |-> JUndef, twice |-> JUndef]

\* The merge step on the manifest.
MergeOnce ==
  /\ calc.stage = "input"
  /\ calc' = [calc EXCEPT !.stage = "once",
                          !.once = MergeStep(calc.packageJson, calc.packageConfig, calc.backend)]
  /\ UNCHANGED <<cli, mainVars>>

\* The merge step on the result of the first application.
MergeAgain ==
  /\ calc.stage = "once"
  /\ calc' = [calc EXCEPT !.stage = "twice",
                          !.twice = MergeStep(calc.once, calc.packageConfig, calc.backend)]
  /\ UNCHANGED <<cli, mainVars>>

MergeNext ==
  \/ MergeOnce
  \/ MergeAgain

MergeSpec == MergeInit /\ [][MergeNext]_vars

-----------------------------------------------------------------------------
(* Properties.                                                             *)

\* The paths at or below the target directory.
InTarget(p) == IsPrefix(targetDir, p)

\* A path relative to a directory.
Rel(base, p) == SubSeq(p, Len(base) + 1, Len(p))

\* The last prompt asked, and the one before it.
LastAsked == asked[Len(asked)]
AskedBefore == IF Len(asked) >= 2 THEN asked[Len(asked) - 1] ELSE ""

\* C1: a run with one argument whose target path exists ends with exit code
\* 1 in its first step, before any prompt is asked and before the templates
\* are read, and leaves everything at or below the target path as it was.
C1_ExistingTargetUntouched ==
  (Len(argv) = 1 /\ existsSync(fs0, targetDir)) =>
    /\ pc \in {"start", "done"}
    /\ pc = "done" => exitCode = "1"
    /\ asked = <<>>
    /\ ~tmplRead
    /\ \A p \in (DOMAIN fs) \cup (DOMAIN fs0) :
         InTarget(p) => p \in DOMAIN fs /\ p \in DOMAIN fs0 /\ fs[p] = fs0[p]

C1_Witness ==
  /\ Len(argv) = 1
  /\ existsSync(fs0, targetDir)
  /\ pc = "done"
  /\ exitCode = "1"
  /\ "exists" \in out

\* C2: a run with one argument and a free target, in which every prompt got
\* an answer the CLI accepted, ends with the success message and exit code
\* 0, the target directory existing.
C2_ValidRunSucceeds ==
  (Len(argv) = 1 /\ ~existsSync(fs0, targetDir) /\ Len(availableTemplates) >= 1
     /\ shouldIncludeClaude # "unset" /\ pc = "done") =>
    /\ exitCode = "0"
    /\ "success" \in out
    /\ existsSync(fs, targetDir)

\* C3: an empty line at a selector prompt is accepted and stands for the
\* default the prompt shows: it never ends the run at the template or the
\* backend prompt when a template exists, it selects a listed template, the
\* backend shown (R in p1), the package manager uv and the documentation
\* choice shown.
C3_EmptyInputTakesShownDefault ==
  (input = "" /\ asked # <<>> /\ Len(availableTemplates) >= 1) =>
    /\ ~(pc = "done" /\ exitCode = "1" /\ LastAsked \in {"template", "backend"})
    /\ (pc = "askBackend") =>
         \E i \in 1..Len(availableTemplates) : selectedTemplate = availableTemplates[i].id
    /\ (pc \in {"askPm", "askDocs"} /\ AskedBefore = "backend") =>
         selectedBackend = BACKENDS[parseInt(BackendShown).n]
    /\ (pc = "askDocs" /\ AskedBefore = "packageManager") =>
         pythonPackageManager = "uv"
    /\ (pc \in {"copy", "patch", "docs", "finish"}) =>
         shouldIncludeClaude = DocsShown

\* C4: once updatePackageJson has patched a target that holds a manifest,
\* the name field of the manifest on disk is the project name.
C4_NameIsAppName ==
  (pc \in {"docs", "finish"} /\ existsSync(fs, targetDir \o <<"package.json">>)) =>
    /\ fs[targetDir \o <<"package.json">>].d.ok
    /\ Get(fs[targetDir \o <<"package.json">>].d.val, "name") = JStr(appName)

\* C5: after a run of p1 or p2 that printed the success message, the target
\* holds no backend-config side-file.
C5_NoSideFileShipped ==
  (cli \in {"p1", "p2"} /\ "success" \in out) =>
    /\ ~existsSync(fs, targetDir \o <<"package-custom.json">>)
    /\ ~existsSync(fs, targetDir \o <<"package-config.json">>)

\* The copy has finished, and the patch has finished, without ending the run.
CopyDone == pc \in {"patch", "docs", "finish"} \/ (pc = "done" /\ "success" \in out)
PatchDone == pc \in {"docs", "finish"} \/ (pc = "done" /\ "success" \in out)

\* No component of the relative path rel is in the skip-list.
NoSkipComponent(rel) == \A i \in 1..Len(rel) : rel[i] \notin SKIP_PATHS

\* The files of the selected template, as paths relative to it.
TemplateFiles ==
  {Rel(templateDir, p) : p \in {q \in DOMAIN fs : IsPrefix(templateDir, q) /\ fs[q].k = "file"}}

\* C6: with a template that has top-level r/ and py/ directories, the target
\* holds the directory of every selected backend with its files (those not
\* under a skip-list name), and no top-level entry of a backend not selected.
C6_BackendDirectories ==
  (CopyDone /\ existsSync(fs, templateDir \o <<"r">>) /\ existsSync(fs, templateDir \o <<"py">>)
     /\ isDirectory(fs, templateDir \o <<"r">>) /\ isDirectory(fs, templateDir \o <<"py">>)) =>
    \A b \in {"r", "py"} :
      IF selectedBackend \in {b, "both"}
      THEN /\ existsSync(fs, targetDir \o <<b>>)
           /\ isDirectory(fs, targetDir \o <<b>>)
           /\ \A rel \in TemplateFiles :
                (rel[1] = b /\ NoSkipComponent(rel)) =>
                  /\ existsSync(fs, targetDir \o rel)
                  /\ fs[targetDir \o rel] = fs[templateDir \o rel]
      ELSE ~existsSync(fs, targetDir \o <<b>>)

\* C7: nothing the run creates in the target has a path component, below
\* the target directory, that is in the skip-list.
C7_NoSkipListEntryCopied ==
  Len(argv) = 1 =>
    \A p \in (DOMAIN fs) \ (DOMAIN fs0) :
      InTarget(p) => NoSkipComponent(Rel(targetDir, p))

\* C8: when the copy has finished, the files of the target are exactly the
\* template's files that have no path component in the skip-list and do not
\* lie under the top-level directory of a backend not selected, each at the
\* same relative path with the same bytes.
C8_TargetMirrorsTemplate ==
  pc = "patch" =>
    LET expected == {rel \in TemplateFiles :
                       NoSkipComponent(rel) /\ rel[1] \notin skipBackendsOf(selectedBackend)}
    IN  /\ \A rel \in expected :
             existsSync(fs, targetDir \o rel) /\ fs[targetDir \o rel] = fs[templateDir \o rel]
        /\ \A p \in DOMAIN fs :
             (InTarget(p) /\ fs[p].k = "file") => Rel(targetDir, p) \in expected

\* The template's manifest is an object, and its side-file parses to an
\* object; the entry of the selected backend; the manifest after the patch.
HasObjManifest ==
  /\ existsSync(fs, templateDir \o <<"package.json">>)
  /\ fs[templateDir \o <<"package.json">>].d.ok
  /\ fs[templateDir \o <<"package.json">>].d.val.t = "obj"
HasObjSideFile ==
  /\ existsSync(fs, templateDir \o <<SideFileName>>)
  /\ fs[templateDir \o <<SideFileName>>].d.ok
  /\ fs[templateDir \o <<SideFileName>>].d.val.t = "obj"
TemplateManifest == fs[templateDir \o <<"package.json">>].d.val
SideEntry == Get(fs[templateDir \o <<SideFileName>>].d.val, selectedBackend)
Patched == fs[targetDir \o <<"package.json">>].d.val

\* The case of C9: p1 or p2 has patched an object manifest with a side-file
\* whose entry for the selected backend has a scripts object.
ScriptsCase ==
  /\ cli \in {"p1", "p2"}
  /\ PatchDone
  /\ HasObjManifest
  /\ HasObjSideFile
  /\ Get(SideEntry, "scripts").t = "obj"

\* C9 as stated: the patched scripts are the entry's scripts exactly.
C9_ScriptsReplaced ==
  ScriptsCase => Get(Patched, "scripts") = Get(SideEntry, "scripts")

\* C9 amended: p2 replaces the scripts by the entry's scripts; p1 merges the
\* entry's scripts into the template's: the entry's value on every key of
\* the entry, the template's value on every other key of the template, and
\* no further key.
C9_ScriptsReplacedOrMerged ==
  ScriptsCase =>
    LET mine == Get(TemplateManifest, "scripts")
        theirs == Get(SideEntry, "scripts")
        got == Get(Patched, "scripts")
    IN  IF cli = "p2" THEN got = theirs
        ELSE /\ got.t = "obj"
             /\ DOMAIN got.o = (DOMAIN Spread(mine)) \cup (DOMAIN theirs.o)
             /\ \A k \in DOMAIN theirs.o : got.o[k] = theirs.o[k]
             /\ \A k \in (DOMAIN Spread(mine)) \ (DOMAIN theirs.o) : got.o[k] = Spread(mine)[k]

C9_Witness ==
  /\ ScriptsCase
  /\ cli = "p2"
  /\ "dev" \in DOMAIN Get(TemplateManifest, "scripts").o
  /\ "dev" \notin DOMAIN Get(Patched, "scripts").o

\* The case of C10: p1 or p2 runs on a template whose manifest is an object
\* and whose side-file is there but does not parse to something indexable.
BrokenSideCase ==
  /\ cli \in {"p1", "p2"}
  /\ selectedTemplate # ""
  /\ HasObjManifest
  /\ existsSync(fs, templateDir \o <<SideFileName>>)
  /\ ~HasObjSideFile

\* C10: in that case the patch prints the warning and writes the manifest
\* with the name set and every other field as in the template, and the run
\* that reached the copy ends with the success message and exit code 0.
C10_BrokenSideFileIsNotFatal ==
  BrokenSideCase =>
    /\ (pc \in {"docs", "finish"} \/ (pc = "done" /\ shouldIncludeClaude # "unset")) =>
         /\ "warnConfig" \in out
         /\ existsSync(fs, targetDir \o <<"package.json">>)
         /\ Patched.t = "obj"
         /\ DOMAIN Patched.o = (DOMAIN TemplateManifest.o) \cup {"name"}
         /\ Patched.o["name"] = JStr(appName)
         /\ \A k \in (DOMAIN TemplateManifest.o) \ {"name"} : Patched.o[k] = TemplateManifest.o[k]
    /\ (pc = "done" /\ shouldIncludeClaude # "unset") =>
         exitCode = "0" /\ "success" \in out

C10_Witness ==
  /\ BrokenSideCase
  /\ pc = "done"
  /\ exitCode = "0"
  /\ "warnConfig" \in out
  /\ "success" \in out

-----------------------------------------------------------------------------
\* C11: the merge step is idempotent: applied to the result of a first
\* application, with the same side-file and the same backend, it yields the
\* manifest the first application yielded.
C11_MergeIdempotent ==
  calc.stage = "twice" => calc.twice = calc.once

\* The merge was applied twice with an entry that changed the manifest.
C11_Witness ==
  /\ calc.stage = "twice"
  /\ calc.backend = "r"
  /\ calc.once # calc.packageJson
  /\ "dependencies" \in ObjectKeys(calc.once)
  /\ "scripts" \in ObjectKeys(calc.once)

\* C12: the templates found are sorted by id, and they are the same whatever
\* the order in which the templates root was listed; the answer k to the
\* template prompt selects the k-th of them.
C12_DiscoveryIsStable ==
  tmplRead =>
    /\ \A i, j \in 1..Len(availableTemplates) :
         i < j => localeCompare(availableTemplates[i].id, availableTemplates[j].id) < 0
    /\ \A entries \in Orders(readdirSync(fs0, templatesDir)) :
         getAvailableTemplates(fs0, templatesDir, entries) = availableTemplates
    /\ (pc = "askBackend" /\ input # "") =>
         selectedTemplate = availableTemplates[parseInt(input).n].id

\* The second of two templates was selected by the answer 2.
C12_Witness ==
  /\ tmplRead
  /\ Len(availableTemplates) = 2
  /\ pc = "askBackend"
  /\ input = "2"
  /\ selectedTemplate = "2-scaffold"

\* The documentation step has run.
DocsDone == pc = "finish" \/ (pc = "done" /\ "success" \in out)

\* The text of CLAUDE.md.template when main() started, and the text with each
\* placeholder replaced by the characters of the project name as they are.
ClaudeTemplate == fs0[templatesDir \o <<"CLAUDE.md.template">>].d.txt

RECURSIVE LiteralReplace(_, _, _)
LiteralReplace(txt, pattern, str) ==
  IF txt = <<>> THEN <<>>
  ELSE (IF Head(txt) = pattern THEN Chars(str) ELSE <<Head(txt)>>)
       \o LiteralReplace(Tail(txt), pattern, str)

\* C13: when the user asked for the documentation and CLAUDE.md.template
\* exists, the CLAUDE.md of the target is the template with every placeholder
\* replaced by the project name taken literally, and holds no placeholder.
C13_PlaceholderReplacedLiterally ==
  (DocsDone /\ shouldIncludeClaude = "yes"
     /\ existsSync(fs0, templatesDir \o <<"CLAUDE.md.template">>)) =>
    /\ existsSync(fs, targetDir \o <<"CLAUDE.md">>)
    /\ fs[targetDir \o <<"CLAUDE.md">>].d.txt
         = LiteralReplace(ClaudeTemplate, Placeholder, appName)
    /\ \A i \in 1..Len(fs[targetDir \o <<"CLAUDE.md">>].d.txt) :
         fs[targetDir \o <<"CLAUDE.md">>].d.txt[i] # Placeholder

\* The documentation sources of the templates root and their places in the
\* target.
ClaudeSrc == templatesDir \o <<"CLAUDE.md.template">>
ShinyReactSrc == templatesDir \o <<"SHINY-REACT.md">>
ClaudeDest == targetDir \o <<"CLAUDE.md">>
ShinyReactDest == targetDir \o <<"SHINY-REACT.md">>

\* After the documentation step: each source is handled on its own.
DocsHandledPerFile ==
  (DocsDone /\ shouldIncludeClaude = "yes") =>
    /\ existsSync(fs0, ClaudeSrc) => existsSync(fs, ClaudeDest) /\ "warnClaude" \notin out
    /\ ~existsSync(fs0, ClaudeSrc) => ~existsSync(fs, ClaudeDest) /\ "warnClaude" \in out
    /\ (cli = "p1" /\ existsSync(fs0, ShinyReactSrc)) =>
         /\ existsSync(fs, ShinyReactDest)
         /\ fs[ShinyReactDest] = fs0[ShinyReactSrc]
         /\ "warnShinyReact" \notin out
    /\ (cli = "p1" /\ ~existsSync(fs0, ShinyReactSrc)) =>
         ~existsSync(fs, ShinyReactDest) /\ "warnShinyReact" \in out
    /\ pc = "done" => exitCode = "0"

\* After the documentation step of a run without documentation.
NoDocsWhenOptedOut ==
  (DocsDone /\ shouldIncludeClaude = "no") =>
    /\ ~existsSync(fs, ClaudeDest)
    /\ ~existsSync(fs, ShinyReactDest)
    /\ out \cap {"warnClaude", "warnShinyReact"} = {}

\* The documentation step itself: it never ends the run, and it leaves the
\* filesystem as it is when the user opted out.
DocsStep ==
  pc = "docs" =>
    /\ pc' = "finish"
    /\ exitCode' = exitCode
    /\ shouldIncludeClaude # "yes" => fs' = fs /\ out' = out

\* C14: the documentation is injected only when the user opted in; a missing
\* source is skipped with a warning while the other one is still copied, and
\* the run goes on to the success message and exit code 0; when the user
\* opted out nothing is written.
C14_DocsPerFileAndOptIn ==
  /\ [](DocsHandledPerFile /\ NoDocsWhenOptedOut)
  /\ [][DocsStep]_vars

\* A run of p1 with documentation ended with success although
\* CLAUDE.md.template was missing: SHINY-REACT.md was copied.
C14_Witness ==
  /\ cli = "p1"
  /\ pc = "done"
  /\ exitCode = "0"
  /\ shouldIncludeClaude = "yes"
  /\ ~existsSync(fs0, ClaudeSrc)
  /\ existsSync(fs0, ShinyReactSrc)
  /\ existsSync(fs, ShinyReactDest)
  /\ "warnClaude" \in out

\* C15: a run with no argument or with more than one prints the usage
\* message and ends with exit code 1 in its first step: no prompt is asked,
\* the templates are not read, and the filesystem stays as it was, whatever
\* it holds.
C15_WrongArgCountOnlyUsage ==
  Len(argv) # 1 =>
    /\ pc \in {"start", "done"}
    /\ pc = "done" => exitCode = "1" /\ out = {"usage"}
    /\ asked = <<>>
    /\ ~tmplRead
    /\ fs = fs0

\* A run with two arguments ended, the directory named by the first one
\* existing.
C15_Witness ==
  /\ Len(argv) = 2
  /\ existsSync(fs0, ResolvePath(argv[1]))
  /\ pc = "done"
  /\ exitCode = "1"
  /\ "usage" \in out

\* The paths of the filesystem at or below the target, with their nodes.
TargetPart(f) == {<<q, f[q]>> : q \in {r \in DOMAIN f : InTarget(r)}}

\* C16: a run that ends with exit code 1 either has left everything at or
\* below the target path as it was, or ended because a template source entry
\* was found missing during the copy.
C16_FailsBeforeWritingOrMidCopy ==
  (Len(argv) = 1 /\ pc = "done" /\ exitCode = "1") =>
    \/ TargetPart(fs) = TargetPart(fs0)
    \/ "templateNotFound" \in out

\* C17: the copy starts only when the target path does not exist at that
\* moment: with the target there, created by another process during a
\* prompt, the copy step writes nothing.
C17_CopyOnlyIntoFreshTarget ==
  [][(pc = "copy" /\ existsSync(fs, targetDir)) => fs' = fs]_vars

\* C18: the backend prompt offers three choices, R, Python and both, and the
\* answers 1, 2 and 3 select them.
C18_ThreeBackendsSelectable ==
  [][pc = "askBackend" =>
       /\ Len(BACKENDS) = 3
       /\ \A k \in 1..3 :
            input' = ToString(k) => selectedBackend' = <<"r", "py", "both">>[k]]_vars

\* C19 as stated: once the selector has started, every run that has ended
\* has closed the readline interface.
C19_ClosedOnEveryExit ==
  (pc = "done" /\ asked # <<>>) => ~rlOpen

\* C19 amended: the readline interface is closed exactly by the runs that
\* end with success; a run that ends with exit code 1, on an invalid choice
\* or in the catch block, leaves it open.
C19_ClosedExactlyOnSuccess ==
  /\ ~rlOpen <=> (pc = "done" /\ exitCode = "0")
  /\ (pc = "done" /\ exitCode = "1") => rlOpen

\* A run ended on an invalid choice at a prompt, the interface still open.
C19_Witness ==
  /\ pc = "done"
  /\ exitCode = "1"
  /\ asked # <<>>
  /\ "invalidChoice" \in out
  /\ rlOpen

\* Whether a line, the default taken for an empty one, is a choice among n:
\* its leading digits read as a number from 1 to n.
InRange(line, dflt, n) ==
  LET x == parseInt(OrDefault(line, dflt))
  IN  ~x.nan /\ x.n >= 1 /\ x.n <= n

\* Whether a line is one of the answers the yes/no loop of p2 takes.
YesOrNo(line) == toLowerCase(line) \in {"y", "yes", "n", "no", ""}

\* An answer to the template or the backend prompt that is no choice in
\* range ends the run with exit code 1, nothing selected from it and the
\* filesystem as it was when main() started.
InvalidChoiceIsFatal ==
  /\ (pc = "askTemplate" /\ input' \in NumAnswers
        /\ ~InRange(input', TemplateDefault, Len(availableTemplates))) =>
       /\ pc' = "done" /\ exitCode' = "1"
       /\ selectedTemplate' = "" /\ selectedBackend' = ""
       /\ fs' = fs0
  /\ (pc = "askBackend" /\ input' \in NumAnswers
        /\ ~InRange(input', BackendDefault, Len(BACKENDS))) =>
       /\ pc' = "done" /\ exitCode' = "1"
       /\ selectedTemplate' = selectedTemplate /\ selectedBackend' = ""
       /\ fs' = fs0

\* An invalid answer to the package-manager prompt, or to the documentation
\* prompt of p1 and p2, asks the same question again: main() stays where it
\* is, running, with every selection as it was.
InvalidAnswerAsksAgain ==
  (\/ pc = "askPm" /\ ~InRange(input', "1", 3)
   \/ pc = "askDocs" /\ cli = "p1" /\ ~InRange(input', "1", 2)
   \/ pc = "askDocs" /\ cli = "p2" /\ ~YesOrNo(input')) =>
    /\ pc' = pc /\ exitCode' = "running"
    /\ asked' = asked
    /\ UNCHANGED <<fs, selectedTemplate, selectedBackend, pythonPackageManager,
                   shouldIncludeClaude>>

PromptsInOrder ==
  IF cli = "p1" /\ selectedBackend = "py"
  THEN <<"template", "backend", "packageManager", "docs">>
  ELSE <<"template", "backend", "docs">>

\* The steps of main() and the place of each in the order of a run.
StepRank(step) ==
  CASE step = "start" -> 0
    [] step = "askTemplate" -> 1
    [] step = "askBackend" -> 2
    [] step = "askPm" -> 3
    [] step = "askDocs" -> 4
    [] step = "copy" -> 5
    [] step = "patch" -> 6
    [] step = "docs" -> 7
    [] step = "finish" -> 8
    [] OTHER -> 9

\* The prompts asked so far are the first ones of the order, and nothing is
\* at or below the target that was not there before the last answer.
PromptsBeforeFiles ==
  /\ LET order == IF selectedBackend = "" THEN <<"template", "backend">> ELSE PromptsInOrder
     IN  Len(asked) <= Len(order) /\ asked = SubSeq(order, 1, Len(asked))
  /\ (Len(argv) = 1 /\ StepRank(pc) <= 4) => TargetPart(fs) = TargetPart(fs0)
  /\ (StepRank(pc) \in 5..8 \/ "success" \in out) => asked = PromptsInOrder

\* One step of main(): it ends the run or goes to the next step of the
\* order, a prompt that asks again apart; the package manager is asked for
\* exactly after the Python backend was selected in p1; the copy leaves the
\* manifest as the template has it and the patch comes after it; only the
\* copy, the patch and the documentation step write.
StepInOrder ==
  /\ pc' # pc =>
       \/ pc' = "done"
       \/ StepRank(pc') = StepRank(pc) + 1
       \/ pc = "askBackend" /\ pc' = "askDocs"
  /\ pc' = pc => pc \in {"askPm", "askDocs"}
  /\ (pc = "askBackend" /\ pc' # "done") =>
       (pc' = "askPm" <=> (cli = "p1" /\ selectedBackend' = "py"))
  /\ fs' # fs => pc \in {"copy", "patch", "docs"}
  /\ (pc = "copy" /\ existsSync(fs', targetDir \o <<"package.json">>)) =>
       fs'[targetDir \o <<"package.json">>] = fs[templateDir \o <<"package.json">>]
  /\ "success" \in out' => pc = "finish" \/ "success" \in out

\* C21: the steps of a run come in the order template prompt, backend
\* prompt, package-manager prompt (p1, asked exactly when the Python backend
\* was selected), documentation prompt, copy, patch, documentation, summary;
\* nothing is created under the target before the last prompt is answered
\* and the manifest is patched after the copy.
C21_StepsInOrder ==
  /\ []PromptsBeforeFiles
  /\ [][StepInOrder]_vars

\* A run of p1 with the Python backend ended with success.
C21_Witness ==
  /\ cli = "p1"
  /\ selectedBackend = "py"
  /\ asked = <<"template", "backend", "packageManager", "docs">>
  /\ pc = "done"
  /\ exitCode = "0"
  /\ existsSync(fs, targetDir \o <<"py", "app.py">>)

\* The ids of the templates found.
TemplateIds == {availableTemplates[i].id : i \in 1..Len(availableTemplates)}

\* C22: the templates found are exactly the entries of the templates root
\* that are directories, are not named in the static skip-list and are not
\* hidden.
C22_OnlyVisibleDirectories ==
  tmplRead =>
    TemplateIds = {e \in readdirSync(fs0, templatesDir) :
                     /\ isDirectory(fs0, templatesDir \o <<e>>)
                     /\ e \notin SKIP_PATHS
                     /\ ~StartsWithDot(e)}

\* Whether a template's package.json is there and parses to a value whose
\* properties can be read.
HasMetadata(id) ==
  LET path == templatesDir \o <<id, "package.json">>
  IN  /\ existsSync(fs0, path)
      /\ fs0[path].d.ok
      /\ fs0[path].d.val.t = "obj"

\* C23: a template directory whose package.json is missing or does not parse
\* is among the templates found, with its directory name as name and the
\* description "Shiny-React template"; the other templates are described
\* as their own package.json says.
C23_BrokenMetadataFallsBack ==
  tmplRead =>
    /\ \A e \in readdirSync(fs0, templatesDir) :
         (isDirectory(fs0, templatesDir \o <<e>>) /\ e \notin SKIP_PATHS /\ ~StartsWithDot(e))
           => e \in TemplateIds
    /\ \A i \in 1..Len(availableTemplates) :
         IF HasMetadata(availableTemplates[i].id)
         THEN availableTemplates[i].description
                = fs0[templatesDir \o <<availableTemplates[i].id, "package.json">>].d.val.o["description"].s
         ELSE /\ availableTemplates[i].name = <<availableTemplates[i].id>>
              /\ availableTemplates[i].description = "Shiny-React template"

\* Two templates were found, the first of them without a package.json that
\* parses.
C23_Witness ==
  /\ tmplRead
  /\ Len(availableTemplates) = 2
  /\ availableTemplates[1].id = "1-basic"
  /\ existsSync(fs0, templatesDir \o <<"1-basic", "package.json">>)
  /\ ~HasMetadata("1-basic")
  /\ availableTemplates[2].name = <<"Scaffold">>

\* Whether a word is a number.
Numeric(part) == part \in {"1", "2"}

\* The words of the display name of a directory id: the words between the
\* hyphens, a leading number left out, each with a capital first letter.
DisplayWords(id) ==
  LET parts == SplitDash(id)
      kept == IF Len(parts) > 1 /\ Numeric(parts[1]) THEN Tail(parts) ELSE parts
  IN  [i \in 1..Len(kept) |-> Capitalize(kept[i])]

\* C24: the display name of every template found is derived from its
\* directory id: a numeric prefix stripped, the other words title-cased and
\* joined by spaces, with or without a package.json.
C24_NameDerivedFromId ==
  tmplRead =>
    \A i \in 1..Len(availableTemplates) :
      availableTemplates[i].name = DisplayWords(availableTemplates[i].id)

\* One answer to the yes/no documentation prompt of p2 and p3.
YesNoStep ==
  (pc = "askDocs" /\ cli \in {"p2", "p3"}) =>
    LET answer == toLowerCase(input')
    IN  /\ answer \in {"y", "yes"} => shouldIncludeClaude' = "yes" /\ pc' = "copy"
        /\ answer \in {"n", "no"} => shouldIncludeClaude' = "no" /\ pc' = "copy"
        /\ answer = "" => shouldIncludeClaude' = DocsShown /\ pc' = "copy"
        /\ answer \notin {"y", "yes", "n", "no", ""} =>
             shouldIncludeClaude' = "unset" /\ pc' = "askDocs"

\* C25: the yes/no documentation prompt takes y, yes, n and no in any case,
\* and the empty line for the default it shows; after any other line nothing
\* is selected and the question is asked again.
C25_YesNoVocabulary ==
  [][YesNoStep]_vars

\* The case of C26: p1 or p2 has patched an object manifest next to a
\* side-file that parses to an object.
MergeCase ==
  /\ cli \in {"p1", "p2"}
  /\ PatchDone
  /\ HasObjManifest
  /\ HasObjSideFile

\* The keys of the entry of the selected backend, none when there is no
\* entry.
EntryKeys == IF Truthy(SideEntry) THEN ObjectKeys(SideEntry) ELSE {}

\* C26: every key of the entry other than scripts whose value is an object is
\* in the patched manifest the union of the template's field and the entry's,
\* the entry's value on every sub-key of the entry and the template's on the
\* others; the fields that are neither name nor a key of the entry are as in
\* the template; without an entry for the backend only name changes.
C26_ShallowUnionPerKey ==
  MergeCase =>
    /\ Patched.t = "obj"
    /\ DOMAIN Patched.o = (DOMAIN TemplateManifest.o) \cup EntryKeys \cup {"name"}
    /\ \A k \in EntryKeys \ {"scripts"} :
         Get(SideEntry, k).t = "obj" =>
           LET mine == Spread(Get(TemplateManifest, k))
               theirs == Get(SideEntry, k).o
               got == Get(Patched, k)
           IN  /\ got.t = "obj"
               /\ DOMAIN got.o = (DOMAIN mine) \cup (DOMAIN theirs)
               /\ \A j \in DOMAIN theirs : got.o[j] = theirs[j]
               /\ \A j \in (DOMAIN mine) \ (DOMAIN theirs) : got.o[j] = mine[j]
    /\ \A k \in (DOMAIN TemplateManifest.o) \ (EntryKeys \cup {"name"}) :
         Patched.o[k] = TemplateManifest.o[k]
    /\ EntryKeys = {} => Patched.o["name"] = JStr(appName)

\* The dependencies of the entry for r were merged into the template's: a
\* shared key, a key of the template alone and a key of the entry alone.
C26_Witness ==
  /\ MergeCase
  /\ selectedBackend = "r"
  /\ Get(SideEntry, "dependencies").t = "obj"
  /\ Get(Get(Patched, "dependencies"), "react") = JStr("2")
  /\ Get(Get(Patched, "dependencies"), "@posit/shiny-react") = JStr("1")
  /\ Get(Get(Patched, "dependencies"), "e") = JStr("2")

\* The build-output directories a command of p3 names.
OutputDirs(cmd) ==
  CASE cmd \in {"esbuild --outfile=r/www/main.js && tsc",
                "esbuild --outfile=r/www/main.js --watch",
                "esbuild --outfile=r/www/main.js",
                "rm -rf r/www"} -> {"r/www"}
    [] cmd \in {"esbuild --outfile=py/www/main.js && tsc",
                "esbuild --outfile=py/www/main.js --watch",
                "esbuild --outfile=py/www/main.js",
                "rm -rf py/www"} -> {"py/www"}
    [] cmd = "rm -rf r/www py/www" -> {"r/www", "py/www"}
    [] OTHER -> {}

\* The build-output directories of the backends selected.
OutputDirsOf(backend) ==
  CASE backend = "r" -> {"r/www"}
    [] backend = "py" -> {"py/www"}
    [] OTHER -> {"r/www", "py/www"}

\* The case of C27: p3 has patched an object manifest.
InlineCase == cli = "p3" /\ PatchDone /\ HasObjManifest

\* C27: the scripts p3 writes hold build, watch and clean, name the output
\* directory of the selected backend only (of both for both), are the same
\* for a backend whatever the template, and keep no script of the template.
C27_InlineScriptsPerBackend ==
  InlineCase =>
    LET scripts == Get(Patched, "scripts")
        before == Get(TemplateManifest, "scripts")
    IN  /\ scripts.t = "obj"
        /\ {"build", "watch", "clean"} \subseteq DOMAIN scripts.o
        /\ \A k \in DOMAIN scripts.o : scripts.o[k].t = "str"
        /\ UNION {OutputDirs(scripts.o[k].s) : k \in DOMAIN scripts.o}
             = OutputDirsOf(selectedBackend)
        /\ OutputDirs(scripts.o["clean"].s) = OutputDirsOf(selectedBackend)
        /\ \A k \in DOMAIN Spread(before) :
             k \notin DOMAIN scripts.o \/ scripts.o[k] # Spread(before)[k]
        /\ \A b \in {"r", "py", "both"} : selectedBackend = b => scripts = InlineScripts(b)

\* p3 wrote the scripts of the Python backend over those of the template.
C27_Witness ==
  /\ InlineCase
  /\ selectedBackend = "py"
  /\ "dev" \in DOMAIN Get(TemplateManifest, "scripts").o
  /\ "dev" \notin DOMAIN Get(Patched, "scripts").o
  /\ Get(Get(Patched, "scripts"), "clean") = JStr("rm -rf py/www")

\* The copy step ends the run.
CopyFails == pc = "copy" /\ pc' = "done"

\* An entry of the template directory that the copy does not skip is gone
\* during the copy step.
SourceGoesMissing ==
  /\ pc = "copy"
  /\ \E victim \in readdirSync(fs, templateDir) \ readdirSync(fs', templateDir) :
       ~Skipped(victim, skipBackendsOf(selectedBackend))

\* The copy step meets a directory in the target where the template has a
\* file.
DestinationInTheWay ==
  /\ pc = "copy"
  /\ ~Skipped("py", skipBackendsOf(selectedBackend))
  /\ existsSync(fs, templateDir \o <<"py", "app.py">>)
  /\ existsSync(fs, targetDir \o <<"py", "app.py">>)
  /\ isDirectory(fs, targetDir \o <<"py", "app.py">>)

\* A failure of the copy ends the run with exit code 1 and without the
\* success message; what was at or below the target stays there, the copied
\* manifest, if any, as the template has it; and nothing happens afterwards.
CopyFailureStep ==
  /\ SourceGoesMissing => CopyFails
  /\ (SourceGoesMissing /\ ~DestinationInTheWay /\ ~IsPrefix(templateDir, targetDir)) =>
       "templateNotFound" \in out'
  /\ DestinationInTheWay => CopyFails
  /\ CopyFails =>
       /\ exitCode' = "1"
       /\ "success" \notin out'
       /\ \A q \in DOMAIN fs : InTarget(q) => q \in DOMAIN fs'
       /\ existsSync(fs', targetDir \o <<"package.json">>) =>
            fs'[targetDir \o <<"package.json">>] = fs[templateDir \o <<"package.json">>]
  /\ pc # "done"

\* C28: when a source entry is found missing or a copy operation fails after
\* some entries were copied, the run ends with exit code 1, nothing more is
\* copied or patched, the success message is not printed, and what was
\* copied stays in the target.
C28_CopyFailureLeavesPartialTarget ==
  [][CopyFailureStep]_vars

\* A run ended because a source entry was missing, files of the template
\* already copied to the target.
C28_Witness ==
  /\ pc = "done"
  /\ exitCode = "1"
  /\ "templateNotFound" \in out
  /\ \E q \in DOMAIN fs :
       /\ InTarget(q)
       /\ q \notin DOMAIN fs0
       /\ fs[q].k = "file"
       /\ existsSync(fs0, templateDir \o Rel(targetDir, q))
       /\ fs[q] = fs0[templateDir \o Rel(targetDir, q)]

\* The places a run looks for templates, and the paths at or below them.
TemplatesRoots == {packageTemplatesDir, devTemplatesDir}
UnderTemplatesRoot(q) == \E root \in TemplatesRoots : IsPrefix(root, q)

\* C29: with the target outside the templates root, nothing at or below the
\* templates root is created, changed or deleted by a run, at any point of
\* it: the template's package.json and side-file stay as they were.
C29_TemplatesRootUnchanged ==
  (Len(argv) = 1 /\ ~UnderTemplatesRoot(targetDir)) =>
    \A q \in DOMAIN fs \cup DOMAIN fs0 :
      UnderTemplatesRoot(q) => q \in DOMAIN fs /\ q \in DOMAIN fs0 /\ fs[q] = fs0[q]

\* A successful run that wrote the manifest of the target and deleted the
\* target's side-file, the template still holding its side-file.
C29_Witness ==
  /\ pc = "done"
  /\ "success" \in out
  /\ ~UnderTemplatesRoot(targetDir)
  /\ existsSync(fs, templateDir \o <<SideFileName>>)
  /\ ~existsSync(fs, targetDir \o <<SideFileName>>)
  /\ fs[targetDir \o <<"package.json">>] # fs[templateDir \o <<"package.json">>]

\* C30: the copy creates the target and, below it, one entry for an entry
\* the template held when the copy began, and no other: no source entry is
\* visited twice and the copy does not visit what it has created, also when
\* the target is inside the template being copied.
C30_CopyVisitsEachSourceEntryOnce ==
  [][pc = "copy" =>
       \A q \in DOMAIN fs' \ DOMAIN fs :
         /\ InTarget(q)
         /\ q # targetDir => existsSync(fs, templateDir \o Rel(targetDir, q))]_vars

====
